---------------------------- MODULE Spec2Model ----------------------------
(***************************************************************************)
(* Model of pcsx2/GS/Renderers/Vulkan/VKUtil.cpp: the Vulkan helper layer  *)
(* of the GS renderer.                                                     *)
(*                                                                         *)
(*   - SafeDestroy* / SafeFreeGlobalDescriptorSet : handle teardown        *)
(*   - BufferMemoryBarrier                        : barrier build + emit   *)
(*   - AddPointerToChain                          : pNext chain linking    *)
(*   - VkResultToString / LogVulkanResult         : status diagnostics     *)
(*                                                                         *)
(* The four groups do not call each other, so each has a specification of  *)
(* its own over the shared variables.                                      *)
(***************************************************************************)
EXTENDS Integers, Sequences, FiniteSets, TLC

VARIABLES
    slot,         \* [Categories -> handle]: the caller-owned handle variables (the T& arguments)
    nextHandle,   \* the next handle value the device will hand out on creation
    nativeCalls,  \* the vkDestroy* / FreeGlobalDescriptorSet calls the device has received, in order
    trace,        \* history: the assignments and teardown calls made on the slots, in order
    pNext,        \* [Nodes -> Nodes \cup {nullptr}]: the pNext member of every structure
    hung,         \* TRUE once a call of AddPointerToChain walks a cycle and never returns
    lastLink,     \* history: the last AddPointerToChain call and how it ended
    cmdBuf,       \* [CommandBuffers -> Seq(command)]: the vkCmdPipelineBarrier commands recorded
    barrierCalls, \* history: the arguments of the BufferMemoryBarrier calls made, in order
    lastString,   \* the last VkResultToString call: [res, str], or NoCall
    sink,         \* the lines Console.Error has received, in order
    logCalls      \* history: the arguments of the LogVulkanResult calls made, in order

vars == <<slot, nextHandle, nativeCalls, trace, pNext, hung, lastLink,
          cmdBuf, barrierCalls, lastString, sink, logCalls>>

teardownVars == <<slot, nextHandle, nativeCalls, trace>>
chainVars    == <<pNext, hung, lastLink>>
barrierVars  == <<cmdBuf, barrierCalls>>
statusVars   == <<lastString, sink, logCalls>>

(***************************************************************************)
(* Resource teardown                                                       *)
(***************************************************************************)

\* Bound: the number of slot operations (assignments and teardown calls) of a run.
MaxCalls == 3

VK_NULL_HANDLE == 0

\* The ten handle categories, one per Safe* function.
Categories ==
    {"Framebuffer", "ShaderModule", "Pipeline", "PipelineLayout", "DescriptorSetLayout",
     "BufferView", "ImageView", "Sampler", "Semaphore", "DescriptorSet"}

\* The native entry point each category's teardown calls.
NativeFn(c) ==
    CASE c = "Framebuffer"         -> "vkDestroyFramebuffer"
      [] c = "ShaderModule"        -> "vkDestroyShaderModule"
      [] c = "Pipeline"            -> "vkDestroyPipeline"
      [] c = "PipelineLayout"      -> "vkDestroyPipelineLayout"
      [] c = "DescriptorSetLayout" -> "vkDestroyDescriptorSetLayout"
      [] c = "BufferView"          -> "vkDestroyBufferView"
      [] c = "ImageView"           -> "vkDestroyImageView"
      [] c = "Sampler"             -> "vkDestroySampler"
      [] c = "Semaphore"           -> "vkDestroySemaphore"
      [] c = "DescriptorSet"       -> "FreeGlobalDescriptorSet"

\* The history entry of one teardown call on category c's slot.
TeardownCall(c) ==
    [op |-> "teardown", cat |-> c, handle |-> slot[c], at |-> Len(nativeCalls)]

\* What every teardown call leaves alone.
TeardownFrame ==
    /\ Len(trace) < MaxCalls
    /\ UNCHANGED <<nextHandle, chainVars, barrierVars, statusVars>>

\* The caller stores a newly created object's handle in category c's slot.
AssignHandle(c) ==
    /\ Len(trace) < MaxCalls
    /\ slot' = [slot EXCEPT ![c] = nextHandle]
    /\ nextHandle' = nextHandle + 1
    /\ trace' = Append(trace, [op |-> "assign", cat |-> c, handle |-> nextHandle,
                               at |-> Len(nativeCalls)])
    /\ UNCHANGED <<nativeCalls, chainVars, barrierVars, statusVars>>

\* Mutant: the framebuffer is destroyed but the slot keeps the dead handle.
SafeDestroyFramebuffer_NoReset ==
    /\ TeardownFrame
    /\ IF slot["Framebuffer"] # VK_NULL_HANDLE
       THEN nativeCalls' = Append(nativeCalls,
                [fn |-> "vkDestroyFramebuffer", handle |-> slot["Framebuffer"]])
       ELSE UNCHANGED nativeCalls
    /\ UNCHANGED slot
    /\ trace' = Append(trace, TeardownCall("Framebuffer"))

\* Mutant: the null check is missing, so an empty slot is passed to the free call.
SafeFreeGlobalDescriptorSet_NoCheck ==
    /\ TeardownFrame
    /\ nativeCalls' = Append(nativeCalls,
            [fn |-> "FreeGlobalDescriptorSet", handle |-> slot["DescriptorSet"]])
    /\ slot' = [slot EXCEPT !["DescriptorSet"] = VK_NULL_HANDLE]
    /\ trace' = Append(trace, TeardownCall("DescriptorSet"))

SafeDestroyFramebuffer ==
    /\ TeardownFrame
    /\ IF slot["Framebuffer"] # VK_NULL_HANDLE
       THEN /\ nativeCalls' = Append(nativeCalls,
                    [fn |-> "vkDestroyFramebuffer", handle |-> slot["Framebuffer"]])
            /\ slot' = [slot EXCEPT !["Framebuffer"] = VK_NULL_HANDLE]
       ELSE UNCHANGED <<nativeCalls, slot>>
    /\ trace' = Append(trace, TeardownCall("Framebuffer"))

SafeDestroyShaderModule ==
    /\ TeardownFrame
    /\ IF slot["ShaderModule"] # VK_NULL_HANDLE
       THEN /\ nativeCalls' = Append(nativeCalls,
                    [fn |-> "vkDestroyShaderModule", handle |-> slot["ShaderModule"]])
            /\ slot' = [slot EXCEPT !["ShaderModule"] = VK_NULL_HANDLE]
       ELSE UNCHANGED <<nativeCalls, slot>>
    /\ trace' = Append(trace, TeardownCall("ShaderModule"))

SafeDestroyPipeline ==
    /\ TeardownFrame
    /\ IF slot["Pipeline"] # VK_NULL_HANDLE
       THEN /\ nativeCalls' = Append(nativeCalls,
                    [fn |-> "vkDestroyPipeline", handle |-> slot["Pipeline"]])
            /\ slot' = [slot EXCEPT !["Pipeline"] = VK_NULL_HANDLE]
       ELSE UNCHANGED <<nativeCalls, slot>>
    /\ trace' = Append(trace, TeardownCall("Pipeline"))

SafeDestroyPipelineLayout ==
    /\ TeardownFrame
    /\ IF slot["PipelineLayout"] # VK_NULL_HANDLE
       THEN /\ nativeCalls' = Append(nativeCalls,
                    [fn |-> "vkDestroyPipelineLayout", handle |-> slot["PipelineLayout"]])
            /\ slot' = [slot EXCEPT !["PipelineLayout"] = VK_NULL_HANDLE]
       ELSE UNCHANGED <<nativeCalls, slot>>
    /\ trace' = Append(trace, TeardownCall("PipelineLayout"))

SafeDestroyDescriptorSetLayout ==
    /\ TeardownFrame
    /\ IF slot["DescriptorSetLayout"] # VK_NULL_HANDLE
       THEN /\ nativeCalls' = Append(nativeCalls,
                    [fn |-> "vkDestroyDescriptorSetLayout",
                     handle |-> slot["DescriptorSetLayout"]])
            /\ slot' = [slot EXCEPT !["DescriptorSetLayout"] = VK_NULL_HANDLE]
       ELSE UNCHANGED <<nativeCalls, slot>>
    /\ trace' = Append(trace, TeardownCall("DescriptorSetLayout"))

SafeDestroyBufferView ==
    /\ TeardownFrame
    /\ IF slot["BufferView"] # VK_NULL_HANDLE
       THEN /\ nativeCalls' = Append(nativeCalls,
                    [fn |-> "vkDestroyBufferView", handle |-> slot["BufferView"]])
            /\ slot' = [slot EXCEPT !["BufferView"] = VK_NULL_HANDLE]
       ELSE UNCHANGED <<nativeCalls, slot>>
    /\ trace' = Append(trace, TeardownCall("BufferView"))

SafeDestroyImageView ==
    /\ TeardownFrame
    /\ IF slot["ImageView"] # VK_NULL_HANDLE
       THEN /\ nativeCalls' = Append(nativeCalls,
                    [fn |-> "vkDestroyImageView", handle |-> slot["ImageView"]])
            /\ slot' = [slot EXCEPT !["ImageView"] = VK_NULL_HANDLE]
       ELSE UNCHANGED <<nativeCalls, slot>>
    /\ trace' = Append(trace, TeardownCall("ImageView"))

SafeDestroySampler ==
    /\ TeardownFrame
    /\ IF slot["Sampler"] # VK_NULL_HANDLE
       THEN /\ nativeCalls' = Append(nativeCalls,
                    [fn |-> "vkDestroySampler", handle |-> slot["Sampler"]])
            /\ slot' = [slot EXCEPT !["Sampler"] = VK_NULL_HANDLE]
       ELSE UNCHANGED <<nativeCalls, slot>>
    /\ trace' = Append(trace, TeardownCall("Sampler"))

SafeDestroySemaphore ==
    /\ TeardownFrame
    /\ IF slot["Semaphore"] # VK_NULL_HANDLE
       THEN /\ nativeCalls' = Append(nativeCalls,
                    [fn |-> "vkDestroySemaphore", handle |-> slot["Semaphore"]])
            /\ slot' = [slot EXCEPT !["Semaphore"] = VK_NULL_HANDLE]
       ELSE UNCHANGED <<nativeCalls, slot>>
    /\ trace' = Append(trace, TeardownCall("Semaphore"))

SafeFreeGlobalDescriptorSet ==
    /\ TeardownFrame
    /\ IF slot["DescriptorSet"] # VK_NULL_HANDLE
       THEN /\ nativeCalls' = Append(nativeCalls,
                    [fn |-> "FreeGlobalDescriptorSet", handle |-> slot["DescriptorSet"]])
            /\ slot' = [slot EXCEPT !["DescriptorSet"] = VK_NULL_HANDLE]
       ELSE UNCHANGED <<nativeCalls, slot>>
    /\ trace' = Append(trace, TeardownCall("DescriptorSet"))

(***************************************************************************)
(* Extension chain linking                                                 *)
(***************************************************************************)

\* Bound: the number of structures (chain heads and extension nodes alike).
MaxNodes == 4

nullptr == 0

Nodes == 1..MaxNodes

NoLink == [head |-> nullptr, ptr |-> nullptr, outcome |-> "none"]

\* Mutant: the loop without its duplicate test (lines 141-142 missing).
RECURSIVE ChainWalk_NoDuplicateTest(_, _, _, _)
ChainWalk_NoDuplicateTest(pn, last_st, ptr, seen) ==
    IF pn[last_st] = nullptr THEN [outcome |-> "append", tail |-> last_st]
    ELSE IF pn[last_st] \in seen THEN [outcome |-> "hang", tail |-> last_st]
    ELSE ChainWalk_NoDuplicateTest(pn, pn[last_st], ptr, seen \cup {pn[last_st]})

\* The while loop of AddPointerToChain, started at last_st with the structures in
\* `seen` behind it.  It leaves by `return` when a pNext is ptr, falls out at the
\* structure whose pNext is null, and never leaves when it comes back to a
\* structure it has already passed (a cycle that does not point at ptr).
RECURSIVE ChainWalk(_, _, _, _)
ChainWalk(pn, last_st, ptr, seen) ==
    IF pn[last_st] = nullptr THEN [outcome |-> "append", tail |-> last_st]
    ELSE IF pn[last_st] = ptr THEN [outcome |-> "return", tail |-> last_st]
    ELSE IF pn[last_st] \in seen THEN [outcome |-> "hang", tail |-> last_st]
    ELSE ChainWalk(pn, pn[last_st], ptr, seen \cup {pn[last_st]})

\* Mutant: the walk to the tail is skipped and ptr is stored in head->pNext.
AddPointerToChain_AtHead(head, ptr) ==
    /\ ~hung
    /\ pNext' = [pNext EXCEPT ![head] = ptr]
    /\ hung' = FALSE
    /\ lastLink' = [head |-> head, ptr |-> ptr, outcome |-> "append"]
    /\ UNCHANGED <<teardownVars, barrierVars, statusVars>>

AddPointerToChain(head, ptr) ==
    /\ ~hung
    /\ LET w == ChainWalk(pNext, head, ptr, {head})
       IN  /\ pNext' = IF w.outcome = "append"
                       THEN [pNext EXCEPT ![w.tail] = ptr]
                       ELSE pNext
           /\ hung' = (w.outcome = "hang")
           /\ lastLink' = [head |-> head, ptr |-> ptr, outcome |-> w.outcome]
    /\ UNCHANGED <<teardownVars, barrierVars, statusVars>>

(***************************************************************************)
(* Buffer barriers                                                         *)
(***************************************************************************)

\* Bound: the number of BufferMemoryBarrier calls of a run.
MaxBarriers == 2

\* ~0U and ~0ULL: every bit set, written as the two's-complement integer.
VK_QUEUE_FAMILY_IGNORED == -1
VK_WHOLE_SIZE == -1

CommandBuffers == {1, 2}
Buffers == {1, 2}

\* The byte size VkBuffer b was created with.
BufferExtent(b) == 8 * b

\* <<src_access_mask, dst_access_mask>>: VK_ACCESS_SHADER_READ_BIT = 32,
\* VK_ACCESS_TRANSFER_WRITE_BIT = 4096.
AccessPairs == {<<32, 4096>>, <<4096, 32>>}

\* <<offset, size>>: the whole buffer, a range inside both buffers, a range
\* that runs past the end of both.
Ranges == {<<0, VK_WHOLE_SIZE>>, <<4, 2>>, <<4, 16>>}

\* <<src_stage_mask, dst_stage_mask>>: VK_PIPELINE_STAGE_VERTEX_SHADER_BIT = 8,
\* VK_PIPELINE_STAGE_TRANSFER_BIT = 4096.
StagePairs == {<<8, 4096>>, <<4096, 8>>}

\* Mutant: the end of the range is stored where its size belongs.
BufferInfo_EndAsSize(buffer, src_access_mask, dst_access_mask, offset, size) ==
    [sType               |-> "VK_STRUCTURE_TYPE_BUFFER_MEMORY_BARRIER",
     pNext               |-> nullptr,
     srcAccessMask       |-> src_access_mask,
     dstAccessMask       |-> dst_access_mask,
     srcQueueFamilyIndex |-> VK_QUEUE_FAMILY_IGNORED,
     dstQueueFamilyIndex |-> VK_QUEUE_FAMILY_IGNORED,
     buffer              |-> buffer,
     offset              |-> offset,
     size                |-> offset + size]

\* Mutant: the two access masks are stored in each other's field.
BufferInfo_AccessSwapped(buffer, src_access_mask, dst_access_mask, offset, size) ==
    [sType               |-> "VK_STRUCTURE_TYPE_BUFFER_MEMORY_BARRIER",
     pNext               |-> nullptr,
     srcAccessMask       |-> dst_access_mask,
     dstAccessMask       |-> src_access_mask,
     srcQueueFamilyIndex |-> VK_QUEUE_FAMILY_IGNORED,
     dstQueueFamilyIndex |-> VK_QUEUE_FAMILY_IGNORED,
     buffer              |-> buffer,
     offset              |-> offset,
     size                |-> size]

\* The VkBufferMemoryBarrier initializer of BufferMemoryBarrier.
BufferInfo(buffer, src_access_mask, dst_access_mask, offset, size) ==
    [sType               |-> "VK_STRUCTURE_TYPE_BUFFER_MEMORY_BARRIER",
     pNext               |-> nullptr,
     srcAccessMask       |-> src_access_mask,
     dstAccessMask       |-> dst_access_mask,
     srcQueueFamilyIndex |-> VK_QUEUE_FAMILY_IGNORED,
     dstQueueFamilyIndex |-> VK_QUEUE_FAMILY_IGNORED,
     buffer              |-> buffer,
     offset              |-> offset,
     size                |-> size]

\* The command one vkCmdPipelineBarrier call records: no memory barrier, one
\* buffer barrier, no image barrier.
PipelineBarrier(src_stage_mask, dst_stage_mask, buffer_info) ==
    [srcStageMask             |-> src_stage_mask,
     dstStageMask             |-> dst_stage_mask,
     dependencyFlags          |-> 0,
     memoryBarrierCount       |-> 0,
     bufferMemoryBarrierCount |-> 1,
     pBufferMemoryBarriers    |-> <<buffer_info>>,
     imageMemoryBarrierCount  |-> 0]

\* The history entry of one BufferMemoryBarrier call.
BarrierArgs(command_buffer, buffer, src_access_mask, dst_access_mask, offset, size, src_stage_mask, dst_stage_mask) ==
    [command_buffer  |-> command_buffer,
     buffer          |-> buffer,
     src_access_mask |-> src_access_mask,
     dst_access_mask |-> dst_access_mask,
     offset          |-> offset,
     size            |-> size,
     src_stage_mask  |-> src_stage_mask,
     dst_stage_mask  |-> dst_stage_mask]

\* Mutant: a barrier equal to the last one recorded is dropped.
BufferMemoryBarrier_Dedup(command_buffer, buffer, src_access_mask, dst_access_mask, offset, size, src_stage_mask, dst_stage_mask) ==
    /\ Len(barrierCalls) < MaxBarriers
    /\ LET cmd == PipelineBarrier(src_stage_mask, dst_stage_mask,
                      BufferInfo(buffer, src_access_mask, dst_access_mask, offset, size))
           rec == cmdBuf[command_buffer]
       IN  cmdBuf' = IF Len(rec) > 0 /\ rec[Len(rec)] = cmd
                     THEN cmdBuf
                     ELSE [cmdBuf EXCEPT ![command_buffer] = Append(@, cmd)]
    /\ barrierCalls' = Append(barrierCalls,
            BarrierArgs(command_buffer, buffer, src_access_mask, dst_access_mask,
                        offset, size, src_stage_mask, dst_stage_mask))
    /\ UNCHANGED <<teardownVars, chainVars, statusVars>>

BufferMemoryBarrier(command_buffer, buffer, src_access_mask, dst_access_mask, offset, size, src_stage_mask, dst_stage_mask) ==
    /\ Len(barrierCalls) < MaxBarriers
    /\ LET buffer_info == BufferInfo(buffer, src_access_mask, dst_access_mask, offset, size)
       IN  cmdBuf' = [cmdBuf EXCEPT ![command_buffer] =
                         Append(@, PipelineBarrier(src_stage_mask, dst_stage_mask, buffer_info))]
    /\ barrierCalls' = Append(barrierCalls,
            BarrierArgs(command_buffer, buffer, src_access_mask, dst_access_mask,
                        offset, size, src_stage_mask, dst_stage_mask))
    /\ UNCHANGED <<teardownVars, chainVars, statusVars>>

(***************************************************************************)
(* Status translation and failure logging                                  *)
(***************************************************************************)

\* Bound: the number of LogVulkanResult calls of a run.
MaxLogs == 2

\* The VkResult enumerators the switch of VkResultToString names, with the
\* values the Vulkan headers give them.
VK_SUCCESS                        == 0
VK_NOT_READY                      == 1
VK_TIMEOUT                        == 2
VK_EVENT_SET                      == 3
VK_EVENT_RESET                    == 4
VK_INCOMPLETE                     == 5
VK_ERROR_OUT_OF_HOST_MEMORY       == -1
VK_ERROR_OUT_OF_DEVICE_MEMORY     == -2
VK_ERROR_INITIALIZATION_FAILED    == -3
VK_ERROR_DEVICE_LOST              == -4
VK_ERROR_MEMORY_MAP_FAILED        == -5
VK_ERROR_LAYER_NOT_PRESENT        == -6
VK_ERROR_EXTENSION_NOT_PRESENT    == -7
VK_ERROR_FEATURE_NOT_PRESENT      == -8
VK_ERROR_INCOMPATIBLE_DRIVER      == -9
VK_ERROR_TOO_MANY_OBJECTS         == -10
VK_ERROR_FORMAT_NOT_SUPPORTED     == -11
VK_ERROR_SURFACE_LOST_KHR         == -1000000000
VK_ERROR_NATIVE_WINDOW_IN_USE_KHR == -1000000001
VK_SUBOPTIMAL_KHR                 == 1000001003
VK_ERROR_OUT_OF_DATE_KHR          == -1000001004
VK_ERROR_INCOMPATIBLE_DISPLAY_KHR == -1000003001
VK_ERROR_VALIDATION_FAILED_EXT    == -1000011001
VK_ERROR_INVALID_SHADER_NV        == -1000012000

\* The enumerators that have a case label.
HandledResults ==
    {VK_SUCCESS, VK_NOT_READY, VK_TIMEOUT,
     VK_EVENT_SET, VK_EVENT_RESET, VK_INCOMPLETE,
     VK_ERROR_OUT_OF_HOST_MEMORY, VK_ERROR_OUT_OF_DEVICE_MEMORY, VK_ERROR_INITIALIZATION_FAILED,
     VK_ERROR_DEVICE_LOST, VK_ERROR_MEMORY_MAP_FAILED, VK_ERROR_LAYER_NOT_PRESENT,
     VK_ERROR_EXTENSION_NOT_PRESENT, VK_ERROR_FEATURE_NOT_PRESENT, VK_ERROR_INCOMPATIBLE_DRIVER,
     VK_ERROR_TOO_MANY_OBJECTS, VK_ERROR_FORMAT_NOT_SUPPORTED, VK_ERROR_SURFACE_LOST_KHR,
     VK_ERROR_NATIVE_WINDOW_IN_USE_KHR, VK_SUBOPTIMAL_KHR, VK_ERROR_OUT_OF_DATE_KHR,
     VK_ERROR_INCOMPATIBLE_DISPLAY_KHR, VK_ERROR_VALIDATION_FAILED_EXT, VK_ERROR_INVALID_SHADER_NV}

\* VkResult values without a case label: VK_ERROR_FRAGMENTED_POOL (-12),
\* VK_ERROR_UNKNOWN (-13), VK_ERROR_OUT_OF_POOL_MEMORY (-1000069000), and
\* values no enumerator has.
UnhandledResults == {-12, -13, -1000069000, 6, 1000001004, -1000000002}

\* Mutant: the VK_ERROR_OUT_OF_DEVICE_MEMORY case returns its neighbour's string.
VkResultToString_CopyPaste(res) ==
    CASE res = VK_SUCCESS                        -> "VK_SUCCESS"
      [] res = VK_NOT_READY                      -> "VK_NOT_READY"
      [] res = VK_TIMEOUT                        -> "VK_TIMEOUT"
      [] res = VK_EVENT_SET                      -> "VK_EVENT_SET"
      [] res = VK_EVENT_RESET                    -> "VK_EVENT_RESET"
      [] res = VK_INCOMPLETE                     -> "VK_INCOMPLETE"
      [] res = VK_ERROR_OUT_OF_HOST_MEMORY       -> "VK_ERROR_OUT_OF_HOST_MEMORY"
      [] res = VK_ERROR_OUT_OF_DEVICE_MEMORY     -> "VK_ERROR_OUT_OF_HOST_MEMORY"
      [] res = VK_ERROR_INITIALIZATION_FAILED    -> "VK_ERROR_INITIALIZATION_FAILED"
      [] res = VK_ERROR_DEVICE_LOST              -> "VK_ERROR_DEVICE_LOST"
      [] res = VK_ERROR_MEMORY_MAP_FAILED        -> "VK_ERROR_MEMORY_MAP_FAILED"
      [] res = VK_ERROR_LAYER_NOT_PRESENT        -> "VK_ERROR_LAYER_NOT_PRESENT"
      [] res = VK_ERROR_EXTENSION_NOT_PRESENT    -> "VK_ERROR_EXTENSION_NOT_PRESENT"
      [] res = VK_ERROR_FEATURE_NOT_PRESENT      -> "VK_ERROR_FEATURE_NOT_PRESENT"
      [] res = VK_ERROR_INCOMPATIBLE_DRIVER      -> "VK_ERROR_INCOMPATIBLE_DRIVER"
      [] res = VK_ERROR_TOO_MANY_OBJECTS         -> "VK_ERROR_TOO_MANY_OBJECTS"
      [] res = VK_ERROR_FORMAT_NOT_SUPPORTED     -> "VK_ERROR_FORMAT_NOT_SUPPORTED"
      [] res = VK_ERROR_SURFACE_LOST_KHR         -> "VK_ERROR_SURFACE_LOST_KHR"
      [] res = VK_ERROR_NATIVE_WINDOW_IN_USE_KHR -> "VK_ERROR_NATIVE_WINDOW_IN_USE_KHR"
      [] res = VK_SUBOPTIMAL_KHR                 -> "VK_SUBOPTIMAL_KHR"
      [] res = VK_ERROR_OUT_OF_DATE_KHR          -> "VK_ERROR_OUT_OF_DATE_KHR"
      [] res = VK_ERROR_INCOMPATIBLE_DISPLAY_KHR -> "VK_ERROR_INCOMPATIBLE_DISPLAY_KHR"
      [] res = VK_ERROR_VALIDATION_FAILED_EXT    -> "VK_ERROR_VALIDATION_FAILED_EXT"
      [] res = VK_ERROR_INVALID_SHADER_NV        -> "VK_ERROR_INVALID_SHADER_NV"
      [] OTHER                                     -> "UNKNOWN_VK_RESULT"

VkResultToString(res) ==
    CASE res = VK_SUCCESS                        -> "VK_SUCCESS"
      [] res = VK_NOT_READY                      -> "VK_NOT_READY"
      [] res = VK_TIMEOUT                        -> "VK_TIMEOUT"
      [] res = VK_EVENT_SET                      -> "VK_EVENT_SET"
      [] res = VK_EVENT_RESET                    -> "VK_EVENT_RESET"
      [] res = VK_INCOMPLETE                     -> "VK_INCOMPLETE"
      [] res = VK_ERROR_OUT_OF_HOST_MEMORY       -> "VK_ERROR_OUT_OF_HOST_MEMORY"
      [] res = VK_ERROR_OUT_OF_DEVICE_MEMORY     -> "VK_ERROR_OUT_OF_DEVICE_MEMORY"
      [] res = VK_ERROR_INITIALIZATION_FAILED    -> "VK_ERROR_INITIALIZATION_FAILED"
      [] res = VK_ERROR_DEVICE_LOST              -> "VK_ERROR_DEVICE_LOST"
      [] res = VK_ERROR_MEMORY_MAP_FAILED        -> "VK_ERROR_MEMORY_MAP_FAILED"
      [] res = VK_ERROR_LAYER_NOT_PRESENT        -> "VK_ERROR_LAYER_NOT_PRESENT"
      [] res = VK_ERROR_EXTENSION_NOT_PRESENT    -> "VK_ERROR_EXTENSION_NOT_PRESENT"
      [] res = VK_ERROR_FEATURE_NOT_PRESENT      -> "VK_ERROR_FEATURE_NOT_PRESENT"
      [] res = VK_ERROR_INCOMPATIBLE_DRIVER      -> "VK_ERROR_INCOMPATIBLE_DRIVER"
      [] res = VK_ERROR_TOO_MANY_OBJECTS         -> "VK_ERROR_TOO_MANY_OBJECTS"
      [] res = VK_ERROR_FORMAT_NOT_SUPPORTED     -> "VK_ERROR_FORMAT_NOT_SUPPORTED"
      [] res = VK_ERROR_SURFACE_LOST_KHR         -> "VK_ERROR_SURFACE_LOST_KHR"
      [] res = VK_ERROR_NATIVE_WINDOW_IN_USE_KHR -> "VK_ERROR_NATIVE_WINDOW_IN_USE_KHR"
      [] res = VK_SUBOPTIMAL_KHR                 -> "VK_SUBOPTIMAL_KHR"
      [] res = VK_ERROR_OUT_OF_DATE_KHR          -> "VK_ERROR_OUT_OF_DATE_KHR"
      [] res = VK_ERROR_INCOMPATIBLE_DISPLAY_KHR -> "VK_ERROR_INCOMPATIBLE_DISPLAY_KHR"
      [] res = VK_ERROR_VALIDATION_FAILED_EXT    -> "VK_ERROR_VALIDATION_FAILED_EXT"
      [] res = VK_ERROR_INVALID_SHADER_NV        -> "VK_ERROR_INVALID_SHADER_NV"
      [] OTHER                                     -> "UNKNOWN_VK_RESULT"

NoString == [res |-> 0, str |-> ""]

\* A direct call of VkResultToString; the caller keeps what it returned.
CallVkResultToString(res) ==
    /\ lastString' = [res |-> res, str |-> VkResultToString(res)]
    /\ UNCHANGED <<teardownVars, chainVars, barrierVars, sink, logCalls>>

\* printf-style formatting of msg with its arguments: msg is the format string cut
\* at its conversions, and every "%d" piece is replaced by the next argument.
RECURSIVE StdStringFromFormatV(_, _)
StdStringFromFormatV(msg, ap) ==
    IF msg = <<>> THEN ""
    ELSE IF Head(msg) = "%d"
         THEN ToString(Head(ap)) \o StdStringFromFormatV(Tail(msg), Tail(ap))
         ELSE Head(msg) \o StdStringFromFormatV(Tail(msg), ap)

\* The callers' func_name arguments.
FuncNames == {"vkCreateFramebuffer", "vkQueueSubmit"}

\* The callers' <<msg, variadic arguments>>.
Messages ==
    {<< <<"vkCreateFramebuffer failed: ">>, <<>> >>,
     << <<"vkAllocateMemory failed for ", "%d", " bytes: ">>, <<64>> >>}

\* The status codes the callers log: success, two handled errors, one without a case.
LoggedResults == {VK_SUCCESS, VK_ERROR_DEVICE_LOST, VK_ERROR_OUT_OF_DATE_KHR, -13}

\* Mutant: the line is written without the numeric status value.
LogVulkanResult_NoNumber(func_name, res, msg, ap) ==
    /\ Len(logCalls) < MaxLogs
    /\ LET real_msg == StdStringFromFormatV(msg, ap)
       IN  sink' = Append(sink, "(" \o func_name \o ") " \o real_msg \o " ("
                                \o VkResultToString(res) \o ")")
    /\ logCalls' = Append(logCalls, [func_name |-> func_name, res |-> res,
                                     msg |-> msg, ap |-> ap])
    /\ UNCHANGED <<teardownVars, chainVars, barrierVars, lastString>>

\* Console.Error("(%s) %s (%d: %s)", ...) hands one line to the console.
LogVulkanResult(func_name, res, msg, ap) ==
    /\ Len(logCalls) < MaxLogs
    /\ LET real_msg == StdStringFromFormatV(msg, ap)
       IN  sink' = Append(sink, "(" \o func_name \o ") " \o real_msg \o " ("
                                \o ToString(res) \o ": " \o VkResultToString(res) \o ")")
    /\ logCalls' = Append(logCalls, [func_name |-> func_name, res |-> res,
                                     msg |-> msg, ap |-> ap])
    /\ UNCHANGED <<teardownVars, chainVars, barrierVars, lastString>>

(***************************************************************************)
(* Specifications                                                          *)
(***************************************************************************)

\* Nothing created, linked, recorded or logged yet.
Init ==
    /\ slot = [c \in Categories |-> VK_NULL_HANDLE]
    /\ nextHandle = 1
    /\ nativeCalls = <<>>
    /\ trace = <<>>
    /\ pNext = [n \in Nodes |-> nullptr]
    /\ hung = FALSE
    /\ lastLink = NoLink
    /\ cmdBuf = [cb \in CommandBuffers |-> <<>>]
    /\ barrierCalls = <<>>
    /\ lastString = NoString
    /\ sink = <<>>
    /\ logCalls = <<>>

NextTeardown ==
    \/ \E c \in Categories : AssignHandle(c)
    \/ SafeDestroyFramebuffer
    \/ SafeDestroyShaderModule
    \/ SafeDestroyPipeline
    \/ SafeDestroyPipelineLayout
    \/ SafeDestroyDescriptorSetLayout
    \/ SafeDestroyBufferView
    \/ SafeDestroyImageView
    \/ SafeDestroySampler
    \/ SafeDestroySemaphore
    \/ SafeFreeGlobalDescriptorSet

NextChain ==
    \E head \in Nodes, ptr \in Nodes : AddPointerToChain(head, ptr)

NextBarrier ==
    \E cb \in CommandBuffers, b \in Buffers, acc \in AccessPairs, rng \in Ranges, stg \in StagePairs :
        BufferMemoryBarrier(cb, b, acc[1], acc[2], rng[1], rng[2], stg[1], stg[2])

NextStatus ==
    \/ \E res \in HandledResults \cup UnhandledResults : CallVkResultToString(res)
    \/ \E f \in FuncNames, res \in LoggedResults, m \in Messages : LogVulkanResult(f, res, m[1], m[2])

Next == NextTeardown \/ NextChain \/ NextBarrier \/ NextStatus

\* The whole layer: any caller, any order.
Spec == Init /\ [][Next]_vars

SpecTeardown == Init /\ [][NextTeardown]_vars
SpecChain    == Init /\ [][NextChain]_vars
SpecBarrier  == Init /\ [][NextBarrier]_vars

\* The renderer in use when a failure is logged: a framebuffer handle is held,
\* structure 2 is linked to head 1, and command buffer 1 holds one barrier.
InUse ==
    /\ slot = [c \in Categories |-> IF c = "Framebuffer" THEN 1 ELSE VK_NULL_HANDLE]
    /\ nextHandle = 2
    /\ nativeCalls = <<>>
    /\ trace = <<[op |-> "assign", cat |-> "Framebuffer", handle |-> 1, at |-> 0]>>
    /\ pNext = [n \in Nodes |-> IF n = 1 THEN 2 ELSE nullptr]
    /\ hung = FALSE
    /\ lastLink = [head |-> 1, ptr |-> 2, outcome |-> "append"]
    /\ cmdBuf = [cb \in CommandBuffers |->
                    IF cb = 1
                    THEN <<PipelineBarrier(8, 4096, BufferInfo(1, 32, 4096, 0, VK_WHOLE_SIZE))>>
                    ELSE <<>>]
    /\ barrierCalls = <<BarrierArgs(1, 1, 32, 4096, 0, VK_WHOLE_SIZE, 8, 4096)>>
    /\ lastString = NoString
    /\ sink = <<>>
    /\ logCalls = <<>>

\* The status functions are called on a fresh layer or on one in use.
SpecStatus == (Init \/ InUse) /\ [][NextStatus]_vars

(***************************************************************************)
(* Teardown properties                                                     *)
(***************************************************************************)

\* The position in trace of the last assignment to c's slot, 0 when there is none.
LastAssign(c) ==
    LET at == {i \in 1..Len(trace) : trace[i].op = "assign" /\ trace[i].cat = c}
    IN  IF at = {} THEN 0 ELSE CHOOSE i \in at : \A j \in at : j <= i

\* What c's slot held when its current run of teardown calls began.
InitialHandle(c) ==
    IF LastAssign(c) = 0 THEN VK_NULL_HANDLE ELSE trace[LastAssign(c)].handle

\* The teardown calls on c's slot since its last assignment.
CallsSince(c) ==
    {i \in (LastAssign(c) + 1)..Len(trace) : trace[i].op = "teardown" /\ trace[i].cat = c}

\* The native calls of c's entry point since the slot's last assignment.
NativeSince(c) ==
    LET from == IF LastAssign(c) = 0 THEN 0 ELSE trace[LastAssign(c)].at
    IN  {j \in (from + 1)..Len(nativeCalls) : nativeCalls[j].fn = NativeFn(c)}

\* C1: for each of the ten categories, once one or more teardown calls have been
\* made on a slot since its last assignment, the slot is empty and the native
\* entry point of the category has been called exactly once, with the handle the
\* slot held, if the slot was live, and not at all if it was empty; and no
\* native call ever receives VK_NULL_HANDLE.
C1_TeardownIdempotent ==
    /\ \A j \in 1..Len(nativeCalls) : nativeCalls[j].handle # VK_NULL_HANDLE
    /\ \A c \in Categories :
          CallsSince(c) # {} =>
             /\ slot[c] = VK_NULL_HANDLE
             /\ Cardinality(NativeSince(c)) = IF InitialHandle(c) # VK_NULL_HANDLE THEN 1 ELSE 0
             /\ \A j \in NativeSince(c) : nativeCalls[j].handle = InitialHandle(c)

\* A live descriptor set torn down twice: one free call in all.
C1_Witness ==
    /\ InitialHandle("DescriptorSet") # VK_NULL_HANDLE
    /\ Cardinality(CallsSince("DescriptorSet")) >= 2
    /\ Len(nativeCalls) = 1

\* An empty slot torn down twice: no native call at all.
C1_WitnessEmpty ==
    \E c \in Categories :
        /\ InitialHandle(c) = VK_NULL_HANDLE
        /\ Cardinality(CallsSince(c)) >= 2
        /\ nativeCalls = <<>>

\* The handle values created so far are 1 .. nextHandle - 1.
Released(h) == \E j \in 1..Len(nativeCalls) : nativeCalls[j].handle = h

Live(h) == h \in 1..(nextHandle - 1) /\ ~Released(h)

TimesDestroyed(h) == Cardinality({j \in 1..Len(nativeCalls) : nativeCalls[j].handle = h})

\* The step is one teardown call on c's slot.
IsTeardownOf(c) ==
    /\ Len(trace') = Len(trace) + 1
    /\ trace'[Len(trace')].op = "teardown"
    /\ trace'[Len(trace')].cat = c

\* C2: in every step, a newly created handle is Live; a Live handle becomes
\* Released only in a teardown call on the slot that holds it, which empties the
\* slot; a Released handle stays Released and is passed to no further native
\* call; and no handle value is ever destroyed more than once.
C2_HandleLifecycle ==
    [][\A h \in 1..(nextHandle' - 1) :
          /\ h >= nextHandle => Live(h)'
          /\ (Live(h) /\ Released(h)') =>
                \E c \in Categories :
                    IsTeardownOf(c) /\ slot[c] = h /\ slot'[c] = VK_NULL_HANDLE
          /\ Released(h) => (Released(h)' /\ TimesDestroyed(h)' = TimesDestroyed(h))
          /\ TimesDestroyed(h)' <= 1]_vars

\* A slot assigned, torn down, and assigned a new handle: the first handle is
\* Released, the slot holds the second, which is Live.
C2_Witness ==
    \E c \in Categories :
        /\ Len(trace) = 3
        /\ trace[1].op = "assign" /\ trace[1].cat = c
        /\ trace[2].op = "teardown" /\ trace[2].cat = c
        /\ trace[3].op = "assign" /\ trace[3].cat = c
        /\ Released(trace[1].handle)
        /\ slot[c] = trace[3].handle
        /\ slot[c] # trace[1].handle
        /\ Live(slot[c])

(***************************************************************************)
(* Chain properties                                                        *)
(***************************************************************************)

\* The structures a consumer of the chain visits from n on, following pNext
\* until it is null; the visit is cut after k structures.
RECURSIVE Follow(_, _, _)
Follow(pn, n, k) ==
    IF n = nullptr \/ k = 0 THEN <<>> ELSE <<n>> \o Follow(pn, pn[n], k - 1)

\* The traversal from head.  MaxNodes + 1 entries mean it never reaches null.
Chain(pn, head) == Follow(pn, head, MaxNodes + 1)

Terminates(pn, head) == Len(Chain(pn, head)) <= MaxNodes

NoRepeat(seq) == \A i, j \in 1..Len(seq) : i # j => seq[i] # seq[j]

Acyclic(pn, head) == Terminates(pn, head) /\ NoRepeat(Chain(pn, head))

Members(seq) == {seq[i] : i \in 1..Len(seq)}

\* The structures reachable from head by one or more pNext references.
Linked(pn, head) == Members(Tail(Chain(pn, head)))

\* The step is a call AddPointerToChain(lastLink'.head, lastLink'.ptr).
IsLink == lastLink' # NoLink /\ (lastLink' # lastLink \/ pNext' # pNext \/ hung' # hung)

\* C3 as claimed: with the head itself counted as reachable, every call on an
\* acyclic chain whose node has a null pNext or is reachable from the head
\* returns and leaves the chain acyclic, without a repeated node, and its
\* traversal terminating.
C3_AsClaimed ==
    [][LET head == lastLink'.head
           ptr  == lastLink'.ptr
       IN  (/\ IsLink
            /\ Acyclic(pNext, head)
            /\ (pNext[ptr] = nullptr \/ ptr \in Members(Chain(pNext, head))))
           => (/\ ~hung'
               /\ Acyclic(pNext', head)
               /\ NoRepeat(Chain(pNext', head))
               /\ Terminates(pNext', head))]_vars

\* C3 for every node other than the head: a call on an
\* acyclic chain whose node is not the head and has a null pNext or is
\* reachable from the head returns and leaves the chain acyclic, without a
\* repeated node, and its traversal terminating.
C3_AcyclicPreserved ==
    [][LET head == lastLink'.head
           ptr  == lastLink'.ptr
       IN  (/\ IsLink
            /\ Acyclic(pNext, head)
            /\ ptr # head
            /\ (pNext[ptr] = nullptr \/ ptr \in Linked(pNext, head)))
           => (/\ ~hung'
               /\ Acyclic(pNext', head)
               /\ NoRepeat(Chain(pNext', head))
               /\ Terminates(pNext', head))]_vars

\* Head 1 with 2, 3 and 4 linked, the last call a repeated link of the tail.
C3_Witness ==
    /\ lastLink = [head |-> 1, ptr |-> 4, outcome |-> "return"]
    /\ Chain(pNext, 1) = <<1, 2, 3, 4>>
    /\ ~hung

\* C4: a call whose node is already linked into the chain of its head (at the
\* tail or in the middle) takes the early return and changes no pNext, so the
\* traversal from the head is the same sequence of the same length.
C4_RelinkIsNoOp ==
    [][LET head == lastLink'.head
           ptr  == lastLink'.ptr
       IN  (IsLink /\ ptr \in Linked(pNext, head))
           => (/\ lastLink'.outcome = "return"
               /\ pNext' = pNext
               /\ ~hung'
               /\ Chain(pNext', head) = Chain(pNext, head))]_vars

\* X = 2, then Y = 3, then X again onto head 1: the chain is 1, 2, 3.
C4_Witness ==
    /\ lastLink = [head |-> 1, ptr |-> 2, outcome |-> "return"]
    /\ Chain(pNext, 1) = <<1, 2, 3>>
    /\ pNext[3] = nullptr

\* C5: a call on an acyclic chain whose node has a null pNext and is not in the
\* chain (head included) changes the pNext of the tail structure and no other,
\* and the traversal afterwards is the traversal before followed by the node.
C5_AppendInArrivalOrder ==
    [][LET head == lastLink'.head
           ptr  == lastLink'.ptr
           old  == Chain(pNext, head)
       IN  (/\ IsLink
            /\ Acyclic(pNext, head)
            /\ pNext[ptr] = nullptr
            /\ ptr \notin Members(old))
           => (/\ lastLink'.outcome = "append"
               /\ Chain(pNext', head) = Append(old, ptr)
               /\ pNext'[old[Len(old)]] = ptr
               /\ \A n \in Nodes \ {old[Len(old)]} : pNext'[n] = pNext[n])]_vars

\* A = 3, B = 2, C = 4 linked in that order onto head 1.
C5_Witness ==
    /\ lastLink = [head |-> 1, ptr |-> 4, outcome |-> "append"]
    /\ Chain(pNext, 1) = <<1, 3, 2, 4>>

(***************************************************************************)
(* Barrier properties                                                      *)
(***************************************************************************)

\* The BufferMemoryBarrier calls made on command buffer cb, in call order.
CallsOn(cb) ==
    LET OnCb(a) == a.command_buffer = cb
    IN  SelectSeq(barrierCalls, OnCb)

\* The buffer barrier of the i-th command recorded in cb.
Descriptor(cb, i) == cmdBuf[cb][i].pBufferMemoryBarriers[1]

\* C6: after k calls on a command buffer it holds exactly k pipeline-barrier
\* commands, the i-th recorded by the i-th call: one buffer barrier and nothing
\* else, on the buffer of that call and with the stage masks of that call;
\* equal calls are recorded as often as they are made.
C6_OneBarrierPerCall ==
    \A cb \in CommandBuffers :
        /\ Len(cmdBuf[cb]) = Len(CallsOn(cb))
        /\ \A i \in 1..Len(cmdBuf[cb]) :
              /\ cmdBuf[cb][i].srcStageMask = CallsOn(cb)[i].src_stage_mask
              /\ cmdBuf[cb][i].dstStageMask = CallsOn(cb)[i].dst_stage_mask
              /\ cmdBuf[cb][i].bufferMemoryBarrierCount = 1
              /\ Len(cmdBuf[cb][i].pBufferMemoryBarriers) = 1
              /\ cmdBuf[cb][i].memoryBarrierCount = 0
              /\ cmdBuf[cb][i].imageMemoryBarrierCount = 0
              /\ Descriptor(cb, i).buffer = CallsOn(cb)[i].buffer

\* Two calls with equal arguments on one command buffer: two equal commands.
C6_Witness ==
    \E cb \in CommandBuffers :
        /\ Len(CallsOn(cb)) = 2
        /\ CallsOn(cb)[1] = CallsOn(cb)[2]
        /\ Len(cmdBuf[cb]) = 2
        /\ cmdBuf[cb][1] = cmdBuf[cb][2]

\* C7: every descriptor built has both queue-family fields equal to
\* VK_QUEUE_FAMILY_IGNORED, and its buffer, access masks, offset and size equal
\* to the arguments of its call.
C7_DescriptorFields ==
    \A cb \in CommandBuffers :
        \A i \in 1..Len(cmdBuf[cb]) :
            LET d == Descriptor(cb, i)
                a == CallsOn(cb)[i]
            IN  /\ i <= Len(CallsOn(cb))
                /\ d.srcQueueFamilyIndex = VK_QUEUE_FAMILY_IGNORED
                /\ d.dstQueueFamilyIndex = VK_QUEUE_FAMILY_IGNORED
                /\ d.buffer = a.buffer
                /\ d.srcAccessMask = a.src_access_mask
                /\ d.dstAccessMask = a.dst_access_mask
                /\ d.offset = a.offset
                /\ d.size = a.size

\* A read-to-write barrier over the whole buffer: offset 0, size VK_WHOLE_SIZE.
C7_Witness ==
    \E cb \in CommandBuffers :
        /\ Len(cmdBuf[cb]) >= 1
        /\ CallsOn(cb)[1].offset = 0
        /\ CallsOn(cb)[1].size = VK_WHOLE_SIZE
        /\ Descriptor(cb, 1).srcAccessMask = 32
        /\ Descriptor(cb, 1).dstAccessMask = 4096
        /\ Descriptor(cb, 1).offset = 0
        /\ Descriptor(cb, 1).size = VK_WHOLE_SIZE
        /\ Descriptor(cb, 1).srcQueueFamilyIndex = VK_QUEUE_FAMILY_IGNORED
        /\ Descriptor(cb, 1).dstQueueFamilyIndex = VK_QUEUE_FAMILY_IGNORED

\* The range lies inside the buffer, or is the whole buffer.
InRange(buffer, offset, size) ==
    size = VK_WHOLE_SIZE \/ offset + size <= BufferExtent(buffer)

\* C8 as claimed: every descriptor emitted satisfies offset + size <= the extent
\* of its buffer, unless its size is VK_WHOLE_SIZE.
C8_AsClaimed ==
    \A cb \in CommandBuffers :
        \A i \in 1..Len(cmdBuf[cb]) :
            InRange(Descriptor(cb, i).buffer, Descriptor(cb, i).offset, Descriptor(cb, i).size)

\* C8 (amended): a descriptor emitted satisfies offset + size <= the extent of
\* its buffer (or has size VK_WHOLE_SIZE) if and only if the arguments of its
\* call do: the range is neither checked nor changed.
C8_RangeAsPassed ==
    \A cb \in CommandBuffers :
        \A i \in 1..Len(cmdBuf[cb]) :
            /\ i <= Len(CallsOn(cb))
            /\ InRange(Descriptor(cb, i).buffer, Descriptor(cb, i).offset, Descriptor(cb, i).size)
                  <=> InRange(CallsOn(cb)[i].buffer, CallsOn(cb)[i].offset, CallsOn(cb)[i].size)

\* One call with a range inside its buffer and one with a range past its end,
\* both emitted as passed.
C8_Witness ==
    \E cb \in CommandBuffers :
        /\ Len(cmdBuf[cb]) = 2
        /\ Descriptor(cb, 1).size # VK_WHOLE_SIZE
        /\ InRange(Descriptor(cb, 1).buffer, Descriptor(cb, 1).offset, Descriptor(cb, 1).size)
        /\ ~InRange(Descriptor(cb, 2).buffer, Descriptor(cb, 2).offset, Descriptor(cb, 2).size)
        /\ ~InRange(CallsOn(cb)[2].buffer, CallsOn(cb)[2].offset, CallsOn(cb)[2].size)

(***************************************************************************)
(* Status properties                                                       *)
(***************************************************************************)

\* C9: a call of VkResultToString with a handled enumerator returns a string
\* that is not the fallback and that no other handled enumerator returns; a
\* call with any other value returns "UNKNOWN_VK_RESULT".
C9_DisplayStrings ==
    lastString # NoString =>
        IF lastString.res \in HandledResults
        THEN /\ lastString.str # "UNKNOWN_VK_RESULT"
             /\ lastString.str # ""
             /\ \A other \in HandledResults \ {lastString.res} :
                    VkResultToString(other) # lastString.str
        ELSE lastString.str = "UNKNOWN_VK_RESULT"

\* The success code has a string of its own.
C9_Witness == lastString = [res |-> VK_SUCCESS, str |-> "VK_SUCCESS"]

\* A declared enumerator without a case label gets the fallback.
C9_WitnessFallback == lastString = [res |-> -12, str |-> "UNKNOWN_VK_RESULT"]

\* The line "(%s) %s (%d: %s)" makes of a LogVulkanResult call.
ExpectedLine(call) ==
    "(" \o call.func_name \o ") " \o StdStringFromFormatV(call.msg, call.ap)
        \o " (" \o ToString(call.res) \o ": " \o VkResultToString(call.res) \o ")"

\* C10: every LogVulkanResult call adds exactly one line to the console, made
\* of the function name, the formatted message, the numeric status and the
\* string VkResultToString gives for that status; it changes no handle slot, no
\* native call record, no pNext and no command buffer, and the caller can go on.
C10_LogOnlyReports ==
    [][logCalls' # logCalls =>
          /\ Len(logCalls') = Len(logCalls) + 1
          /\ sink' = Append(sink, ExpectedLine(logCalls'[Len(logCalls')]))
          /\ UNCHANGED <<slot, nativeCalls, pNext, hung, cmdBuf>>]_vars

\* On a layer in use, a handled and an unhandled status logged, one line each.
C10_Witness ==
    /\ slot["Framebuffer"] = 1
    /\ pNext[1] = 2
    /\ Len(cmdBuf[1]) = 1
    /\ Len(logCalls) = 2
    /\ sink = <<"(vkQueueSubmit) vkCreateFramebuffer failed:  (-4: VK_ERROR_DEVICE_LOST)",
                "(vkCreateFramebuffer) vkAllocateMemory failed for 64 bytes:  (-13: UNKNOWN_VK_RESULT)">>

=============================================================================
